---- MODULE Spec2Model ----
(***************************************************************************)
(* Expense and time tracker tool server (final/main.py).                   *)
(*                                                                         *)
(* The state is the sqlite database file (three tables and the             *)
(* AUTOINCREMENT counters of sqlite_sequence), the server process          *)
(* (running or not), the sqlite connections that finished calls left open, *)
(* and the most recent event with its arguments and its outcome.           *)
(*                                                                         *)
(* Text values whose order matters (dates, start times) are sequences of   *)
(* character codes compared as sqlite's BINARY collation compares them.    *)
(* REAL amounts are drawn from integer-valued floats, on which REAL        *)
(* addition is exact; NaN is kept apart because sqlite binds it as NULL.   *)
(* Hours are kept in hundredths and percentages in tenths, the places      *)
(* round() keeps.                                                          *)
(***************************************************************************)
EXTENDS Integers, Sequences, FiniteSets, TLC

VARIABLES running, expenses, time_entries, activity_categories,
          sqlite_sequence, open_conns, last

vars == <<running, expenses, time_entries, activity_categories,
          sqlite_sequence, open_conns, last>>

tables == <<expenses, time_entries, activity_categories>>

(***************************************************************************)
(* Bounds of the model.                                                    *)
(***************************************************************************)
MaxExpenses == 2
MaxTimeEntries == 2
MaxOpen == 2

(***************************************************************************)
(* Python and sqlite values.                                               *)
(***************************************************************************)
\* Python None / SQL NULL, and a present optional value.
None == <<>>
Some(x) == <<x>>

\* A float argument: a finite value, or NaN.
NaN == <<>>
Float(v) == <<v>>

\* Variant: `if category is not None:`.
TruthyNotNone(opt) == opt /= None

\* Python truthiness of an optional str argument: None and "" are false.
Truthy(opt) == opt /= None /\ opt[1] /= ""

\* sqlite3 binds a Python float with sqlite3_bind_double, which stores NaN as NULL.
BindDouble(x) == IF x = NaN THEN None ELSE x

Max(a, b) == IF a >= b THEN a ELSE b

\* BINARY collation: memcmp over the common prefix, then the shorter first.
RECURSIVE LexLess(_, _)
LexLess(a, b) ==
    IF b = <<>> THEN FALSE
    ELSE IF a = <<>> THEN TRUE
    ELSE IF a[1] /= b[1] THEN a[1] < b[1]
    ELSE LexLess(Tail(a), Tail(b))

LexLeq(a, b) == a = b \/ LexLess(a, b)

\* x BETWEEN lo AND hi  is  x >= lo AND x <= hi.
Between(x, lo, hi) == LexLeq(lo, x) /\ LexLeq(x, hi)

\* Python round(n / d, k) on the exact quotient, to the nearest unit of the
\* kept place, ties to even; n and d are the scaled numerator and divisor.
RoundHalfEven(n, d) ==
    LET nn == IF d < 0 THEN 0 - n ELSE n
        dd == IF d < 0 THEN 0 - d ELSE d
        q == nn \div dd
        r == nn % dd
    IN  IF 2 * r < dd THEN q
        ELSE IF 2 * r > dd THEN q + 1
        ELSE IF q % 2 = 0 THEN q ELSE q + 1

\* round(minutes / 60, 2), in hundredths of an hour.
Hours(minutes) == RoundHalfEven(minutes * 100, 60)

(***************************************************************************)
(* Storage: tables are sets of rows; ids come from AUTOINCREMENT.          *)
(***************************************************************************)
Ids(rows) == {r.id : r \in rows}

RECURSIVE MaxId(_)
MaxId(rows) ==
    IF rows = {} THEN 0
    ELSE LET r == CHOOSE x \in rows : TRUE
         IN  Max(r.id, MaxId(rows \ {r}))

\* Variant: the counter is read and not advanced past the first id.
AutoIncrementReuse(seq, rows) == Max(seq, 1)

\* INTEGER PRIMARY KEY AUTOINCREMENT: one more than the largest rowid the
\* table has ever held (sqlite_sequence), never a rowid used before.
AutoIncrement(seq, rows) == Max(seq, MaxId(rows)) + 1

\* The rows of a table in rowid order (a table scan).
RECURSIVE Scan(_)
Scan(rows) ==
    IF rows = {} THEN <<>>
    ELSE LET r == CHOOSE x \in rows : \A y \in rows : x.id <= y.id
         IN  <<r>> \o Scan(rows \ {r})

\* Variant: INSERT OR REPLACE over the whole table.
InsertExpenseReplace(rows, seq, date, amount, category, subcategory, note) ==
    IF BindDouble(amount) = None
    THEN [ok |-> FALSE, id |-> 0, rows |-> rows]
    ELSE LET id == AutoIncrement(seq, rows)
         IN  [ok |-> TRUE, id |-> id,
              rows |-> {[id |-> id, date |-> date, amount |-> amount[1],
                         category |-> category, subcategory |-> subcategory,
                         note |-> note]}]

\* INSERT INTO expenses(date, amount, category, subcategory, note): NOT NULL
\* on date, amount and category; the row gets the next AUTOINCREMENT id.
InsertExpense(rows, seq, date, amount, category, subcategory, note) ==
    IF BindDouble(amount) = None
    THEN [ok |-> FALSE, id |-> 0, rows |-> rows]
    ELSE LET id == AutoIncrement(seq, rows)
         IN  [ok |-> TRUE, id |-> id,
              rows |-> rows \cup
                  {[id |-> id, date |-> date, amount |-> amount[1],
                    category |-> category, subcategory |-> subcategory,
                    note |-> note]}]

\* Variant: ORDER BY date DESC, id ASC.
ExpenseBeforeIdAsc(a, b) ==
    LexLess(b.date, a.date) \/ (a.date = b.date /\ a.id < b.id)

\* ORDER BY date DESC, id DESC.
ExpenseBefore(a, b) ==
    LexLess(b.date, a.date) \/ (a.date = b.date /\ a.id > b.id)

RECURSIVE OrderExpenses(_)
OrderExpenses(rows) ==
    IF rows = {} THEN <<>>
    ELSE LET r == CHOOSE x \in rows : \A y \in rows \ {x} : ExpenseBefore(x, y)
         IN  <<r>> \o OrderExpenses(rows \ {r})

\* Variant: the lower bound excluded.
list_expenses_exclusive(rows, start_date, end_date) ==
    OrderExpenses({r \in rows : LexLess(start_date, r.date) /\ LexLeq(r.date, end_date)})

\* SELECT id, date, amount, category, subcategory, note FROM expenses
\* WHERE date BETWEEN ? AND ? ORDER BY date DESC, id DESC
list_expenses(rows, start_date, end_date) ==
    OrderExpenses({r \in rows : Between(r.date, start_date, end_date)})

\* The rows of S in every order, each row once.
RowOrders(S) ==
    {s \in [1..Cardinality(S) -> S] :
        \A i, j \in 1..Cardinality(S) : i /= j => s[i] /= s[j]}

\* Python sum(seq), from the start value 0.
RECURSIVE SumSeq(_)
SumSeq(seq) ==
    IF seq = <<>> THEN 0 ELSE Head(seq) + SumSeq(Tail(seq))

\* GROUP BY key with SUM(value) and COUNT(*): one pass over the scanned
\* <<key, value>> pairs, one accumulator per key met.
RECURSIVE Aggregate(_, _)
Aggregate(seq, acc) ==
    IF seq = <<>> THEN acc
    ELSE LET k == Head(seq)[1]
             v == Head(seq)[2]
             next == IF k \in DOMAIN acc
                     THEN [acc EXCEPT ![k] = [total |-> @.total + v,
                                              count |-> @.count + 1]]
                     ELSE acc @@ (k :> [total |-> v, count |-> 1])
         IN  Aggregate(Tail(seq), next)

NoGroups == [k \in {} |-> [total |-> 0, count |-> 0]]

ExpenseKeyValue(r) == <<r.category, r.amount>>

\* Variant: the category condition never added.
ExpenseFilterNoCategory(rows, start_date, end_date, category) ==
    {r \in rows : Between(r.date, start_date, end_date)}

\* WHERE date BETWEEN ? AND ? [AND category = ?]: the category condition is
\* added only under `if category:`.
ExpenseFilter(rows, start_date, end_date, category) ==
    {r \in rows : /\ Between(r.date, start_date, end_date)
                  /\ Truthy(category) => r.category = category[1]}

\* SELECT category, SUM(amount) AS total_amount, COUNT(*) AS count ...
\* GROUP BY category: the groups, before ORDER BY.
ExpenseGroups(rows, start_date, end_date, category) ==
    LET scanned == Scan(ExpenseFilter(rows, start_date, end_date, category))
        acc == Aggregate([i \in 1..Len(scanned) |-> ExpenseKeyValue(scanned[i])], NoGroups)
    IN  {[category |-> c, total_amount |-> acc[c].total, count |-> acc[c].count] :
            c \in DOMAIN acc}

TotalAmountBefore(a, b) == a.total_amount > b.total_amount

\* summarize_expenses: the results the query may return (ORDER BY
\* total_amount DESC leaves the order of equal totals open).
summarize_expenses(rows, start_date, end_date, category) ==
    {s \in RowOrders(ExpenseGroups(rows, start_date, end_date, category)) :
        \A i, j \in 1..Len(s) : i < j => ~TotalAmountBefore(s[j], s[i])}

(***************************************************************************)
(* Time tracking.                                                          *)
(***************************************************************************)
\* INSERT INTO time_entries(date, activity, duration_minutes, start_time,
\* end_time, note): the typed arguments meet every NOT NULL; no CHECK limits
\* duration_minutes.
InsertTimeEntry(rows, seq, date, activity, duration_minutes, start_time, end_time, note) ==
    LET id == AutoIncrement(seq, rows)
    IN  [ok |-> TRUE, id |-> id,
         rows |-> rows \cup
             {[id |-> id, date |-> date, activity |-> activity,
               duration_minutes |-> duration_minutes, start_time |-> start_time,
               end_time |-> end_time, note |-> note]}]

\* WHERE date BETWEEN ? AND ? [AND activity = ?], the activity condition
\* only under `if activity:`.
TimeFilter(rows, start_date, end_date, activity) ==
    {r \in rows : /\ Between(r.date, start_date, end_date)
                  /\ Truthy(activity) => r.activity = activity[1]}

\* sqlite orders NULL before every text value.
NullableLess(a, b) ==
    IF b = None THEN FALSE
    ELSE IF a = None THEN TRUE
    ELSE LexLess(a[1], b[1])

\* ORDER BY date DESC, start_time DESC.
TimeEntryBefore(a, b) ==
    \/ LexLess(b.date, a.date)
    \/ a.date = b.date /\ NullableLess(b.start_time, a.start_time)

\* r['duration_hours'] = round(r['duration_minutes'] / 60, 2)
WithDurationHours(r) ==
    [id |-> r.id, date |-> r.date, activity |-> r.activity,
     duration_minutes |-> r.duration_minutes, start_time |-> r.start_time,
     end_time |-> r.end_time, note |-> r.note,
     duration_hours |-> Hours(r.duration_minutes)]

\* list_time_entries: the results the query may return.
list_time_entries(rows, start_date, end_date, activity) ==
    LET ordered == {s \in RowOrders(TimeFilter(rows, start_date, end_date, activity)) :
                       \A i, j \in 1..Len(s) : i < j => ~TimeEntryBefore(s[j], s[i])}
    IN  {[i \in 1..Len(s) |-> WithDurationHours(s[i])] : s \in ordered}

TimeKeyValue(r) == <<r.activity, r.duration_minutes>>

\* SELECT activity, SUM(duration_minutes) AS total_minutes, COUNT(*) AS
\* entry_count, AVG(duration_minutes) AS avg_minutes ... GROUP BY activity;
\* avg_minutes is kept as the quotient total_minutes / entry_count.
TimeGroups(rows, start_date, end_date, activity) ==
    LET scanned == Scan(TimeFilter(rows, start_date, end_date, activity))
        acc == Aggregate([i \in 1..Len(scanned) |-> TimeKeyValue(scanned[i])], NoGroups)
    IN  {[activity |-> a, total_minutes |-> acc[a].total,
          entry_count |-> acc[a].count,
          avg_minutes |-> <<acc[a].total, acc[a].count>>] : a \in DOMAIN acc}

TotalMinutesBefore(a, b) == a.total_minutes > b.total_minutes

\* round(total_minutes / total_all * 100, 1) if total_all > 0 else 0, in tenths.
Percentage(total_minutes, total_all) ==
    IF total_all > 0 THEN RoundHalfEven(total_minutes * 1000, total_all) ELSE 0

\* The hours conversion and the percentage added to every group.
WithPercentages(results) ==
    LET total_all == SumSeq([i \in 1..Len(results) |-> results[i].total_minutes])
        Augment(r) ==
            [activity |-> r.activity, total_minutes |-> r.total_minutes,
             entry_count |-> r.entry_count, avg_minutes |-> r.avg_minutes,
             total_hours |-> Hours(r.total_minutes),
             avg_hours |-> RoundHalfEven(r.avg_minutes[1] * 100, 60 * r.avg_minutes[2]),
             percentage |-> Percentage(r.total_minutes, total_all)]
    IN  [i \in 1..Len(results) |-> Augment(results[i])]

\* summarize_time: the results the call may return (ORDER BY total_minutes
\* DESC leaves the order of equal totals open).
summarize_time(rows, start_date, end_date, activity) ==
    LET ordered == {s \in RowOrders(TimeGroups(rows, start_date, end_date, activity)) :
                       \A i, j \in 1..Len(s) : i < j => ~TotalMinutesBefore(s[j], s[i])}
    IN  {WithPercentages(s) : s \in ordered}

(***************************************************************************)
(* Daily summary.                                                          *)
(***************************************************************************)
\* Variant: WHERE date <= ?
OnDateUpTo(rows, date) == {r \in rows : LexLeq(r.date, date)}

\* WHERE date = ?
OnDate(rows, date) == {r \in rows : r.date = date}

\* SELECT category, SUM(amount) AS total FROM expenses WHERE date = ?
\* GROUP BY category  (no ORDER BY: any order of the groups).
DailyExpenses(rows, date) ==
    LET scanned == Scan(OnDate(rows, date))
        acc == Aggregate([i \in 1..Len(scanned) |-> ExpenseKeyValue(scanned[i])], NoGroups)
    IN  RowOrders({[category |-> c, total |-> acc[c].total] : c \in DOMAIN acc})

\* SELECT activity, SUM(duration_minutes) AS total_minutes FROM time_entries
\* WHERE date = ? GROUP BY activity, each with hours = round(minutes / 60, 2).
DailyTimeEntries(rows, date) ==
    LET scanned == Scan(OnDate(rows, date))
        acc == Aggregate([i \in 1..Len(scanned) |-> TimeKeyValue(scanned[i])], NoGroups)
    IN  RowOrders({[activity |-> a, minutes |-> acc[a].total,
                       hours |-> Hours(acc[a].total)] : a \in DOMAIN acc})

\* The returned mapping, given the two fetched lists.
DailySummary(date, exps, times) ==
    [date |-> date,
     expenses |-> exps,
     total_expense |-> SumSeq([i \in 1..Len(exps) |-> exps[i].total]),
     time_entries |-> times,
     total_hours |-> SumSeq([i \in 1..Len(times) |-> times[i].hours])]

\* get_daily_summary: the results the call may return.
get_daily_summary(exp_rows, time_rows, date) ==
    {DailySummary(date, e, t) :
        e \in DailyExpenses(exp_rows, date), t \in DailyTimeEntries(time_rows, date)}

(***************************************************************************)
(* Activity categories and initialization.                                 *)
(***************************************************************************)
DefaultColor == "#3b82f6"

default_activities ==
    << <<"Study", "#10b981">>, <<"Work", "#3b82f6">>, <<"Game", "#8b5cf6">>,
       <<"Exercise", "#f59e0b">>, <<"Reading", "#ec4899">>, <<"Coding", "#06b6d4">>,
       <<"Sleep", "#6366f1">>, <<"Social", "#f97316">>, <<"Other", "#6b7280">> >>

\* The names the model uses, in BINARY collation order.
NameOrder ==
    <<"Coding", "Exercise", "Game", "Other", "Reading", "Sleep", "Social",
      "Study", "Work", "Yoga">>

NameRank(name) == CHOOSE i \in 1..Len(NameOrder) : NameOrder[i] = name

\* Variant: the column declared without UNIQUE.
InsertCategoryNoUnique(rows, seq, name, color) ==
    LET id == AutoIncrement(seq, rows)
    IN  [ok |-> TRUE, seq |-> id,
         rows |-> rows \cup {[id |-> id, name |-> name, color |-> color]}]

\* INSERT INTO activity_categories(name, color): name is UNIQUE NOT NULL, a
\* name already present raises sqlite3.IntegrityError.
InsertCategory(rows, seq, name, color) ==
    IF \E r \in rows : r.name = name
    THEN [ok |-> FALSE, seq |-> seq, rows |-> rows]
    ELSE LET id == AutoIncrement(seq, rows)
         IN  [ok |-> TRUE, seq |-> id,
              rows |-> rows \cup {[id |-> id, name |-> name, color |-> color]}]

\* c.executemany(INSERT ..., params): one insert per parameter pair, stopping
\* at the first that raises.
RECURSIVE ExecuteMany(_, _, _)
ExecuteMany(rows, seq, params) ==
    IF params = <<>> THEN [ok |-> TRUE, seq |-> seq, rows |-> rows]
    ELSE LET one == InsertCategory(rows, seq, Head(params)[1], Head(params)[2])
         IN  IF one.ok THEN ExecuteMany(one.rows, one.seq, Tail(params)) ELSE one

\* Variant: the defaults inserted without the COUNT(*) test.
InitDbAlwaysSeed(rows, seq) ==
    LET many == ExecuteMany(rows, seq, default_activities)
    IN  IF many.ok THEN [ok |-> TRUE, seeded |-> TRUE, seq |-> many.seq, rows |-> many.rows]
        ELSE [ok |-> FALSE, seeded |-> FALSE, seq |-> seq, rows |-> rows]

\* init_db on the activity_categories table (the CREATE TABLE IF NOT EXISTS
\* statements change no existing table): the defaults are inserted when
\* SELECT COUNT(*) is 0; an exception leaves the `with` block by rollback.
InitDb(rows, seq) ==
    IF Cardinality(rows) = 0
    THEN LET many == ExecuteMany(rows, seq, default_activities)
         IN  IF many.ok
             THEN [ok |-> TRUE, seeded |-> TRUE, seq |-> many.seq, rows |-> many.rows]
             ELSE [ok |-> FALSE, seeded |-> FALSE, seq |-> seq, rows |-> rows]
    ELSE [ok |-> TRUE, seeded |-> FALSE, seq |-> seq, rows |-> rows]

\* SELECT name, color FROM activity_categories ORDER BY name
RECURSIVE OrderByName(_)
OrderByName(rows) ==
    IF rows = {} THEN <<>>
    ELSE LET r == CHOOSE x \in rows : \A y \in rows : NameRank(x.name) <= NameRank(y.name)
         IN  <<[name |-> r.name, color |-> r.color]>> \o OrderByName(rows \ {r})

list_activities(rows) == OrderByName(rows)

(***************************************************************************)
(* The server process and its tool calls.                                  *)
(***************************************************************************)
Init ==
    /\ running = FALSE
    /\ expenses = {}
    /\ time_entries = {}
    /\ activity_categories = {}
    /\ sqlite_sequence = [expenses |-> 0, time_entries |-> 0, activity_categories |-> 0]
    /\ open_conns = 0
    /\ last = [tool |-> "none", args |-> <<>>, raised |-> FALSE, result |-> <<>>]

\* `with sqlite3.connect(DB_PATH) as c:` opens a connection; leaving the block
\* commits or rolls back and does not close it. The connection stays open
\* after the call until the collector finalizes it.
ConnectionLeftOpen == open_conns' = open_conns + 1

CanConnect == open_conns < MaxOpen

\* Starting the process imports the module, which runs init_db(); a raised
\* exception ends the import.
Start ==
    /\ ~running
    /\ CanConnect
    /\ LET res == InitDb(activity_categories, sqlite_sequence.activity_categories)
       IN  /\ activity_categories' = res.rows
           /\ sqlite_sequence' = [sqlite_sequence EXCEPT !.activity_categories = res.seq]
           /\ running' = res.ok
           /\ open_conns' = IF res.ok THEN open_conns + 1 ELSE 0
           /\ last' = [tool |-> "init_db", args |-> <<>>, raised |-> ~res.ok,
                       result |-> [seeded |-> res.seeded]]
    /\ UNCHANGED <<expenses, time_entries>>

\* The process exits; the operating system closes what it held open.
Stop ==
    /\ running
    /\ running' = FALSE
    /\ open_conns' = 0
    /\ last' = [tool |-> "exit", args |-> <<>>, raised |-> FALSE, result |-> <<>>]
    /\ UNCHANGED <<expenses, time_entries, activity_categories, sqlite_sequence>>

\* The garbage collector finalizes the unreachable connections.
Collect ==
    /\ open_conns > 0
    /\ open_conns' = 0
    /\ last' = [tool |-> "gc", args |-> <<>>, raised |-> FALSE, result |-> <<>>]
    /\ UNCHANGED <<running, expenses, time_entries, activity_categories, sqlite_sequence>>

add_expense(date, amount, category, subcategory, note) ==
    /\ running
    /\ CanConnect
    /\ Cardinality(expenses) < MaxExpenses
    /\ LET res == InsertExpense(expenses, sqlite_sequence.expenses,
                                date, amount, category, subcategory, note)
       IN  /\ expenses' = res.rows
           /\ sqlite_sequence' =
                  IF res.ok THEN [sqlite_sequence EXCEPT !.expenses = res.id]
                  ELSE sqlite_sequence
           /\ last' = [tool |-> "add_expense",
                       args |-> <<date, amount, category, subcategory, note>>,
                       raised |-> ~res.ok,
                       result |-> IF res.ok
                                  THEN [status |-> "success", id |-> res.id,
                                        message |-> "Expense added successfully"]
                                  ELSE [status |-> "IntegrityError", id |-> 0,
                                        message |-> "NOT NULL constraint failed"]]
    /\ ConnectionLeftOpen
    /\ UNCHANGED <<running, time_entries, activity_categories>>

ListExpenses(start_date, end_date) ==
    /\ running
    /\ CanConnect
    /\ last' = [tool |-> "list_expenses", args |-> <<start_date, end_date>>,
                raised |-> FALSE,
                result |-> list_expenses(expenses, start_date, end_date)]
    /\ ConnectionLeftOpen
    /\ UNCHANGED <<running, expenses, time_entries, activity_categories, sqlite_sequence>>

SummarizeExpenses(start_date, end_date, category) ==
    /\ running
    /\ CanConnect
    /\ \E res \in summarize_expenses(expenses, start_date, end_date, category) :
           last' = [tool |-> "summarize_expenses",
                    args |-> <<start_date, end_date, category>>,
                    raised |-> FALSE, result |-> res]
    /\ ConnectionLeftOpen
    /\ UNCHANGED <<running, expenses, time_entries, activity_categories, sqlite_sequence>>

add_time_entry(date, activity, duration_minutes, start_time, end_time, note) ==
    /\ running
    /\ CanConnect
    /\ Cardinality(time_entries) < MaxTimeEntries
    /\ LET res == InsertTimeEntry(time_entries, sqlite_sequence.time_entries, date,
                                  activity, duration_minutes, start_time, end_time, note)
       IN  /\ time_entries' = res.rows
           /\ sqlite_sequence' = [sqlite_sequence EXCEPT !.time_entries = res.id]
           /\ last' = [tool |-> "add_time_entry",
                       args |-> <<date, activity, duration_minutes, start_time,
                                  end_time, note>>,
                       raised |-> FALSE,
                       result |-> [status |-> "success", id |-> res.id,
                                   message |-> <<"Time entry added", duration_minutes,
                                                 activity>>]]
    /\ ConnectionLeftOpen
    /\ UNCHANGED <<running, expenses, activity_categories>>

ListTimeEntries(start_date, end_date, activity) ==
    /\ running
    /\ CanConnect
    /\ \E res \in list_time_entries(time_entries, start_date, end_date, activity) :
           last' = [tool |-> "list_time_entries",
                    args |-> <<start_date, end_date, activity>>,
                    raised |-> FALSE, result |-> res]
    /\ ConnectionLeftOpen
    /\ UNCHANGED <<running, expenses, time_entries, activity_categories, sqlite_sequence>>

SummarizeTime(start_date, end_date, activity) ==
    /\ running
    /\ CanConnect
    /\ \E res \in summarize_time(time_entries, start_date, end_date, activity) :
           last' = [tool |-> "summarize_time",
                    args |-> <<start_date, end_date, activity>>,
                    raised |-> FALSE, result |-> res]
    /\ ConnectionLeftOpen
    /\ UNCHANGED <<running, expenses, time_entries, activity_categories, sqlite_sequence>>

GetDailySummary(date) ==
    /\ running
    /\ CanConnect
    /\ \E res \in get_daily_summary(expenses, time_entries, date) :
           last' = [tool |-> "get_daily_summary", args |-> <<date>>,
                    raised |-> FALSE, result |-> res]
    /\ ConnectionLeftOpen
    /\ UNCHANGED <<running, expenses, time_entries, activity_categories, sqlite_sequence>>

ListActivities ==
    /\ running
    /\ CanConnect
    /\ last' = [tool |-> "list_activities", args |-> <<>>, raised |-> FALSE,
                result |-> list_activities(activity_categories)]
    /\ ConnectionLeftOpen
    /\ UNCHANGED <<running, expenses, time_entries, activity_categories, sqlite_sequence>>

\* The IntegrityError of a duplicate name is caught and returned as a result.
add_activity_category(name, color) ==
    /\ running
    /\ CanConnect
    /\ LET res == InsertCategory(activity_categories,
                                 sqlite_sequence.activity_categories, name, color)
       IN  /\ activity_categories' = res.rows
           /\ sqlite_sequence' = [sqlite_sequence EXCEPT !.activity_categories = res.seq]
           /\ last' = [tool |-> "add_activity_category", args |-> <<name, color>>,
                       raised |-> FALSE,
                       result |-> IF res.ok
                                  THEN [status |-> "success",
                                        message |-> <<"added", name>>]
                                  ELSE [status |-> "error",
                                        message |-> <<"already exists", name>>]]
    /\ ConnectionLeftOpen
    /\ UNCHANGED <<running, expenses, time_entries>>

(***************************************************************************)
(* Inputs.                                                                 *)
(***************************************************************************)
\* "1" < "10" < "2" as text.
Dates == {<<1>>, <<1, 0>>, <<2>>}
FewDates == {<<1>>, <<2>>}
Amounts == {Float(2), Float(5), NaN}
Categories == {"Food", ""}
CategoryFilters == {None, Some(""), Some("Food")}
Activities == {"Study", "Work"}
ActivityFilters == {None, Some(""), Some("Study")}
Durations == {0 - 60, 0, 60, 180}
NewNames == {"Study", "Yoga"}

(***************************************************************************)
(* Specifications.                                                         *)
(***************************************************************************)
\* Every tool, on few inputs.
Next ==
    \/ Start
    \/ Stop
    \/ Collect
    \/ \E a \in {Float(5), NaN} : add_expense(<<1>>, a, "Food", "", "")
    \/ ListExpenses(<<1>>, <<1>>)
    \/ SummarizeExpenses(<<1>>, <<1>>, None)
    \/ add_time_entry(<<1>>, "Study", 60, None, None, "")
    \/ ListTimeEntries(<<1>>, <<1>>, None)
    \/ SummarizeTime(<<1>>, <<1>>, None)
    \/ GetDailySummary(<<1>>)
    \/ ListActivities
    \/ \E n \in NewNames : add_activity_category(n, DefaultColor)

Spec == Init /\ [][Next]_vars

\* The expense tools.
NextExpenses ==
    \/ Start
    \/ Collect
    \/ \E d \in Dates, a \in Amounts, c \in Categories : add_expense(d, a, c, "", "")
    \/ \E s \in Dates, e \in Dates : ListExpenses(s, e)
    \/ \E s \in FewDates, e \in FewDates, c \in CategoryFilters :
           SummarizeExpenses(s, e, c)

SpecExpenses == Init /\ [][NextExpenses]_vars

\* The time tools.
NextTime ==
    \/ Start
    \/ Collect
    \/ \E d \in FewDates, a \in Activities, m \in Durations :
           add_time_entry(d, a, m, None, None, "")
    \/ \E s \in FewDates, e \in FewDates, a \in ActivityFilters : SummarizeTime(s, e, a)

SpecTime == Init /\ [][NextTime]_vars

\* The daily summary over both tables.
NextDaily ==
    \/ Start
    \/ Collect
    \/ \E d \in FewDates, c \in {"Food", "Rent"} : add_expense(d, Float(5), c, "", "")
    \/ \E d \in FewDates, a \in Activities : add_time_entry(d, a, 50, None, None, "")
    \/ \E d \in FewDates : GetDailySummary(d)

SpecDaily == Init /\ [][NextDaily]_vars

\* The optional filters, absent or empty, over rows whose category or
\* activity may be empty.
NextFilters ==
    \/ Start
    \/ Collect
    \/ \E d \in FewDates, c \in Categories : add_expense(d, Float(5), c, "", "")
    \/ \E a \in {"Study", ""}, st \in {None, Some(<<9>>)} :
           add_time_entry(<<1>>, a, 60, st, None, "")
    \/ \E c \in {None, Some("")} : SummarizeExpenses(<<1>>, <<1>>, c)
    \/ \E a \in {None, Some("")} : ListTimeEntries(<<1>>, <<1>>, a)
    \/ \E a \in {None, Some("")} : SummarizeTime(<<1>>, <<1>>, a)

SpecFilters == Init /\ [][NextFilters]_vars

(***************************************************************************)
(* Properties.                                                             *)
(***************************************************************************)
ReadTools ==
    {"list_expenses", "summarize_expenses", "list_time_entries", "summarize_time",
     "get_daily_summary", "list_activities"}

ToolNames ==
    ReadTools \cup {"add_expense", "add_time_entry", "add_activity_category"}

\* The place of each date of Dates in text order, written out.
TextRank(d) ==
    CASE d = <<1>> -> 1
      [] d = <<1, 0>> -> 2
      [] d = <<2>> -> 3

RECURSIVE SumAmount(_)
SumAmount(rows) ==
    IF rows = {} THEN 0
    ELSE LET r == CHOOSE x \in rows : TRUE
         IN  r.amount + SumAmount(rows \ {r})

RECURSIVE SumMinutes(_)
SumMinutes(rows) ==
    IF rows = {} THEN 0
    ELSE LET r == CHOOSE x \in rows : TRUE
         IN  r.duration_minutes + SumMinutes(rows \ {r})

\* The sum of f[i] over the index set I.
RECURSIVE SumOver(_, _)
SumOver(I, f) ==
    IF I = {} THEN 0
    ELSE LET i == CHOOSE x \in I : TRUE
         IN  f[i] + SumOver(I \ {i}, f)

Succeeded(call, tool) == call.tool = tool /\ ~call.raised

\* C1: the ids returned by successful add_expense calls are strictly
\* increasing in call order, and so are those of add_time_entry: each
\* returned id is greater than every id its table already holds, it is the id
\* of a row the table holds afterwards, and no two rows of a table share an id.
C1_IdsStrictlyIncreasing ==
    [][/\ Succeeded(last', "add_expense") =>
              /\ \A r \in expenses : r.id < last'.result.id
              /\ \E r \in expenses' : r.id = last'.result.id
              /\ Cardinality(Ids(expenses')) = Cardinality(expenses')
       /\ Succeeded(last', "add_time_entry") =>
              /\ \A r \in time_entries : r.id < last'.result.id
              /\ \E r \in time_entries' : r.id = last'.result.id
              /\ Cardinality(Ids(time_entries')) = Cardinality(time_entries')]_vars

C1_Witness ==
    /\ Succeeded(last, "add_time_entry")
    /\ last.result.id = 2
    /\ Ids(expenses) = {1, 2}

\* C2 as claimed: list_expenses(d, d) right after a successful
\* add_expense(d, amt, cat) returns exactly one row, the inserted one.
C2_ExactlyOneRow ==
    [][(/\ Succeeded(last, "add_expense")
        /\ last'.tool = "list_expenses"
        /\ last'.args = <<last.args[1], last.args[1]>>) =>
           /\ Len(last'.result) = 1
           /\ last'.result[1].id = last.result.id
           /\ last'.result[1].date = last.args[1]
           /\ last'.result[1].amount = last.args[2][1]
           /\ last'.result[1].category = last.args[3]]_vars

\* C2 amended: list_expenses(d, d) right after a successful
\* add_expense(d, amt, cat) returns the inserted row first, with the returned
\* id and the inserted date, amount and category, once; the other rows it
\* returns are the earlier expenses of date d, so it returns exactly one row
\* when no earlier expense has date d.
C2_InsertedRowListed ==
    [][(/\ Succeeded(last, "add_expense")
        /\ last'.tool = "list_expenses"
        /\ last'.args = <<last.args[1], last.args[1]>>) =>
           LET res == last'.result
               earlier == {r \in expenses : r.id /= last.result.id /\ r.date = last.args[1]}
           IN  /\ Len(res) = 1 + Cardinality(earlier)
               /\ res[1].id = last.result.id
               /\ res[1].date = last.args[1]
               /\ res[1].amount = last.args[2][1]
               /\ res[1].category = last.args[3]
               /\ \A i \in 2..Len(res) : res[i] \in earlier]_vars

C2_Witness ==
    /\ last.tool = "list_expenses"
    /\ last.args[1] = last.args[2]
    /\ Len(last.result) = 2
    /\ last.result[1].id = sqlite_sequence.expenses
    /\ last.result[1].date = last.args[1]

DefaultNames == {default_activities[i][1] : i \in 1..Len(default_activities)}

\* C4: init_db is idempotent: every run succeeds; a run on the empty table
\* leaves exactly the nine defaults and a run on a seeded table changes
\* nothing; after every step, whatever restarts and tool calls came before,
\* activity_categories holds each of the nine defaults exactly once.
C4_InitIdempotent ==
    [][/\ last'.tool = "init_db" =>
              /\ ~last'.raised
              /\ IF activity_categories = {}
                 THEN /\ Cardinality(activity_categories') = 9
                      /\ {r.name : r \in activity_categories'} = DefaultNames
                 ELSE activity_categories' = activity_categories
       /\ Cardinality(DefaultNames) = 9
       /\ \A n \in DefaultNames :
              Cardinality({r \in activity_categories' : r.name = n}) = 1]_vars

C4_Witness ==
    /\ last.tool = "init_db"
    /\ ~last.raised
    /\ ~last.result.seeded
    /\ Cardinality(activity_categories) = 9

NamesDistinct(rows) == \A a, b \in rows : a.name = b.name => a = b

\* C5: add_activity_category with a name already present returns status
\* "error" without raising and leaves activity_categories unchanged; the
\* names of activity_categories are pairwise distinct after every step.
C5_DuplicateCategory ==
    [][/\ (/\ last'.tool = "add_activity_category"
           /\ \E r \in activity_categories : r.name = last'.args[1]) =>
              /\ ~last'.raised
              /\ last'.result.status = "error"
              /\ activity_categories' = activity_categories
       /\ NamesDistinct(activity_categories')]_vars

C5_Witness ==
    /\ last.tool = "add_activity_category"
    /\ last.args[1] = "Yoga"
    /\ last.result.status = "error"
    /\ Cardinality(activity_categories) = 10

\* C6: every group summarize_time returns has percentage equal to its
\* total_minutes over the sum of total_minutes of all returned groups, times
\* 100, rounded to one decimal place, and 0 when that sum is zero.
C6_Percentages ==
    last.tool = "summarize_time" =>
        LET res == last.result
            sum == SumOver(1..Len(res), [i \in 1..Len(res) |-> res[i].total_minutes])
        IN  \A i \in 1..Len(res) :
                res[i].percentage =
                    IF sum = 0 THEN 0
                    ELSE RoundHalfEven(res[i].total_minutes * 1000, sum)

\* C7: get_daily_summary(date) groups the rows of exactly that date, and
\* returns total_expense equal to the sum of the returned category totals and
\* total_hours equal to the sum of the returned hours, each the activity's
\* minutes / 60 to the nearest hundredth; with no rows of that date the lists
\* are empty and the totals 0.
C7_DailySummary ==
    last.tool = "get_daily_summary" =>
        LET d == last.args[1]
            res == last.result
            E == {r \in expenses : r.date = d}
            T == {r \in time_entries : r.date = d}
            ne == Len(res.expenses)
            nt == Len(res.time_entries)
        IN  /\ {res.expenses[i].category : i \in 1..ne} = {r.category : r \in E}
            /\ ne = Cardinality({r.category : r \in E})
            /\ \A i \in 1..ne :
                   res.expenses[i].total =
                       SumAmount({r \in E : r.category = res.expenses[i].category})
            /\ {res.time_entries[i].activity : i \in 1..nt} = {r.activity : r \in T}
            /\ nt = Cardinality({r.activity : r \in T})
            /\ \A i \in 1..nt :
                   LET t == res.time_entries[i]
                       diff == 60 * t.hours - 100 * t.minutes
                   IN  /\ t.minutes = SumMinutes({r \in T : r.activity = t.activity})
                       /\ 0 - 30 <= diff /\ diff <= 30
            /\ res.total_expense =
                   SumOver(1..ne, [i \in 1..ne |-> res.expenses[i].total])
            /\ res.total_hours =
                   SumOver(1..nt, [i \in 1..nt |-> res.time_entries[i].hours])
            /\ E = {} => res.expenses = <<>> /\ res.total_expense = 0
            /\ T = {} => res.time_entries = <<>> /\ res.total_hours = 0

C7_Witness ==
    /\ last.tool = "get_daily_summary"
    /\ Len(last.result.time_entries) = 2
    /\ last.result.total_hours = 166
    /\ Len(last.result.expenses) = 2
    /\ last.result.total_expense = 10

\* C8: list_expenses(start_date, end_date) returns exactly the expenses whose
\* date lies in [start_date, end_date] in text order, each once, by date
\* descending and by id descending among equal dates; nothing when
\* start_date > end_date.
C8_ListRange ==
    last.tool = "list_expenses" =>
        LET s == last.args[1]
            e == last.args[2]
            res == last.result
            n == Len(res)
        IN  /\ {res[i] : i \in 1..n} =
                   {r \in expenses : /\ TextRank(s) <= TextRank(r.date)
                                     /\ TextRank(r.date) <= TextRank(e)}
            /\ n = Cardinality({res[i] : i \in 1..n})
            /\ \A i, j \in 1..n :
                   i < j => \/ TextRank(res[i].date) > TextRank(res[j].date)
                            \/ /\ res[i].date = res[j].date
                               /\ res[i].id > res[j].id
            /\ TextRank(s) > TextRank(e) => res = <<>>

C8_Witness ==
    /\ last.tool = "list_expenses"
    /\ last.args = <<(<<1>>), (<<1, 0>>)>>
    /\ Len(last.result) = 2
    /\ last.result[1].date = <<1, 0>>
    /\ last.result[2].date = <<1>>
    /\ last.result[1].id < last.result[2].id

\* C9: no step removes or changes an expense row or a time_entries row, and
\* the read tools leave the three tables as they are.
C9_CreateOnly ==
    [][/\ expenses \subseteq expenses'
       /\ time_entries \subseteq time_entries'
       /\ last'.tool \in ReadTools => tables' = tables]_vars

C9_Witness ==
    /\ last.tool = "init_db"
    /\ Cardinality(expenses) = 2
    /\ Cardinality(time_entries) = 2
    /\ Cardinality(activity_categories) = 10

\* C10: every tool call releases the connection it opened before it returns:
\* no finished call leaves more connections open than it found.
C10_ConnectionReleased ==
    [][last'.tool \in ToolNames => open_conns' <= open_conns]_vars

\* C11: an optional filter passed as "" is treated as absent:
\* summarize_expenses(s, e, ""), list_time_entries(s, e, "") and
\* summarize_time(s, e, "") return a result of the same call without the
\* argument, which covers every row of the date range whatever its category
\* or activity, not only the rows whose category or activity is "".
C11_EmptyFilterAbsent ==
    LET s == last.args[1]
        e == last.args[2]
        res == last.result
        n == Len(res)
        inRangeExpenses == {r \in expenses : /\ TextRank(s) <= TextRank(r.date)
                                             /\ TextRank(r.date) <= TextRank(e)}
        inRangeEntries == {r \in time_entries : /\ TextRank(s) <= TextRank(r.date)
                                                /\ TextRank(r.date) <= TextRank(e)}
    IN  /\ (last.tool = "summarize_expenses" /\ last.args[3] = Some("")) =>
               /\ res \in summarize_expenses(expenses, s, e, None)
               /\ SumOver(1..n, [i \in 1..n |-> res[i].count]) =
                      Cardinality(inRangeExpenses)
        /\ (last.tool = "list_time_entries" /\ last.args[3] = Some("")) =>
               /\ res \in list_time_entries(time_entries, s, e, None)
               /\ {res[i].id : i \in 1..n} = Ids(inRangeEntries)
        /\ (last.tool = "summarize_time" /\ last.args[3] = Some("")) =>
               /\ res \in summarize_time(time_entries, s, e, None)
               /\ SumOver(1..n, [i \in 1..n |-> res[i].entry_count]) =
                      Cardinality(inRangeEntries)

C11_Witness ==
    /\ last.tool = "summarize_time"
    /\ last.args[3] = Some("")
    /\ Len(last.result) = 2
    /\ \E i \in 1..2 : last.result[i].activity = ""
    /\ \E i \in 1..2 : last.result[i].activity = "Study"
    /\ \E r \in expenses : r.category = ""

====
